---- MODULE Spec2Model ----
(***************************************************************************)
(* A model of the timeline clip widget of PiTiVi,                          *)
(* src/src/pitivi-timelinemedia.c: the selected flag and the linked        *)
(* reference of every clip, the split ("cut") of a clip on button release, *)
(* dissociate, delete and the deselect signal; and the life of a clip:     *)
(* its construction from a source descriptor, its composition-engine       *)
(* object, its paint and its destruction.                                  *)
(*                                                                         *)
(* Every handler is an operator from a heap record to a heap record,       *)
(* written statement by statement in the order of the C code.  The heap    *)
(* holds the fields of the clips and tracks, and a log of the signals the  *)
(* handler emits and the repaints it requests, in order.  An action        *)
(* applies one handler to the current heap and commits the result.         *)
(***************************************************************************)
EXTENDS Integers, Sequences, FiniteSets, TLC

\* Bounds of the model.
MaxCuts == 1           \* cuts (button releases in cut mode) performed
InitWidth == 3         \* allocated width, in pixels, of the clips of Init
MaxCreates == 2        \* clips the track code constructs by itself
MaxOps == 2            \* operations of the timeline code and the source list
MaxTime == 1           \* largest time given to the composition engine

NULL == 0
\* The clip objects: those the track code constructs, and at most two
\* more per cut.
Objects == 1..(MaxCreates + 2 * MaxCuts)

\* The track containers (PitiviTimelineCellRenderer) of the timeline: a
\* video track, an audio track and a transition track.
Tracks == {"V", "A", "T"}
NoTrack == "none"

\* PitiviLayerType
PITIVI_NO_TRACK == "PITIVI_NO_TRACK"
PITIVI_AUDIO_TRACK == "PITIVI_AUDIO_TRACK"
PITIVI_VIDEO_TRACK == "PITIVI_VIDEO_TRACK"
PITIVI_EFFECTS_TRACK == "PITIVI_EFFECTS_TRACK"
PITIVI_TRANSITION_TRACK == "PITIVI_TRANSITION_TRACK"

track_type(t) ==
  CASE t = "A" -> PITIVI_AUDIO_TRACK
    [] t = "T" -> PITIVI_TRANSITION_TRACK
    [] OTHER -> PITIVI_VIDEO_TRACK

\* container->linked_track: the track holding the other half of a pair.
linked_track(t) ==
  CASE t = "A" -> "V"
    [] t = "V" -> "A"
    [] OTHER -> NoTrack

PITIVI_CURSOR_SELECT == "PITIVI_CURSOR_SELECT"
PITIVI_CURSOR_CUT == "PITIVI_CURSOR_CUT"
PITIVI_CURSOR_HAND == "PITIVI_CURSOR_HAND"
CursorTypes == {PITIVI_CURSOR_SELECT, PITIVI_CURSOR_CUT, PITIVI_CURSOR_HAND}

\* A source descriptor (PitiviSourceFile) is a struct of a length and of
\* pointers: to the file name, to the media kind tag, to the render pipeline
\* and to the effect thumbnail.  A pointer is written as the name of the
\* buffer or object it points to; what is there is in mem.
NoBuffer == "null"
NoSourceFile ==
  [filename |-> NoBuffer, mediatype |-> NoBuffer, length |-> 0,
   pipeline |-> NoBuffer, thumbs_effect |-> NoBuffer]
SourceFileVideo ==
  [filename |-> "name_v", mediatype |-> "kind_v", length |-> 3,
   pipeline |-> "pipeline_v", thumbs_effect |-> NoBuffer]
SourceFileAudio ==
  [filename |-> "name_a", mediatype |-> "kind_a", length |-> 3,
   pipeline |-> "pipeline_a", thumbs_effect |-> NoBuffer]
SourceFileTransition ==
  [filename |-> "name_t", mediatype |-> "kind_t", length |-> 1,
   pipeline |-> NoBuffer, thumbs_effect |-> "thumb_t"]

\* The descriptors the source list owns, and the buffers they point to.
Descriptors == {"DV", "DA", "DT"}
Buffers ==
  {"name_v", "kind_v", "pipeline_v", "name_a", "kind_a", "pipeline_a",
   "name_t", "kind_t", "thumb_t", "spare", NoBuffer}
PointerFields == {"filename", "mediatype", "pipeline", "thumbs_effect"}

\* What the buffers hold when the media have been imported.
InitMem ==
  [b \in Buffers |->
     CASE b \in {"name_v", "name_a"} -> "movie.avi"
       [] b = "name_t" -> "fade"
       [] b = "kind_v" -> "video"
       [] b = "kind_a" -> "audio"
       [] b = "kind_t" -> "transition"
       [] b = NoBuffer -> ""
       [] OTHER -> b]
InitSf ==
  [d \in Descriptors |->
     CASE d = "DV" -> SourceFileVideo
       [] d = "DA" -> SourceFileAudio
       [] OTHER -> SourceFileTransition]

\* What reading through a null pointer does on the platform: the read
\* traps, or page 0 is mapped and the read yields zero bytes.
NullReadOutcomes == {"fault", "zero"}

\* A clip without a composition-engine object.
NoSource == [name |-> "", start |-> 0, stop |-> 0, media_start |-> 0,
             media_stop |-> 0, priority |-> 0, pipeline |-> NoBuffer]

\* widget->allocation of a widget the layout has not allocated yet.
NoAllocation == [x |-> -1, width |-> 1]

VARIABLES
  live,          \* the clip objects that exist (constructed, not destroyed)
  nclips,        \* number of clip objects constructed so far
  ncuts,         \* number of cuts performed so far
  selected,      \* self->selected
  linked,        \* self->linked, NULL or a clip object
  cell,          \* self->private->cell, the track given to the constructor
  parent,        \* gtk_widget_get_parent: the track the clip is placed in
  id,            \* self->sourceitem->id
  isaudio,       \* self->sourceitem->isaudio
  srcfile,       \* self->sourceitem->srcfile, the clip's descriptor copy
  layout_x,      \* x given to gtk_layout_put
  size_request,  \* width given to gtk_widget_set_size_request
  allocation,    \* widget->allocation (x and width)
  nb_added,      \* cell->nb_added[0], one insertion counter per track
  cursor,        \* the process-wide cursor type
  media_type,    \* self->private->media_type
  gnlsource,     \* self->sourceitem->gnlsource, NULL or an engine object
  gnl,           \* the composition-engine objects (GnlSource)
  allocated,     \* the heap blocks allocated for the clips and not freed
  sf,            \* the descriptors owned by the source list
  mem,           \* what the buffers the descriptors point to hold
  page0,         \* what a read through a null pointer does
  fault,         \* the process has been stopped by a memory fault
  ncreates,      \* number of clips the track code has constructed
  nops           \* number of operations of the timeline code and source list

vars == <<live, nclips, selected, linked, cell, parent, id, isaudio,
          srcfile, layout_x, size_request, allocation, nb_added, cursor,
          ncuts, media_type, gnlsource, gnl, allocated, sf, mem, page0,
          fault, ncreates, nops>>

\* The heap a handler starts on: the current state, with an empty log.
Heap ==
  [live |-> live, nclips |-> nclips, selected |-> selected,
   linked |-> linked, cell |-> cell, parent |-> parent, id |-> id,
   isaudio |-> isaudio, srcfile |-> srcfile, layout_x |-> layout_x,
   size_request |-> size_request, allocation |-> allocation,
   nb_added |-> nb_added, cursor |-> cursor, media_type |-> media_type,
   gnlsource |-> gnlsource, gnl |-> gnl, allocated |-> allocated,
   sf |-> sf, mem |-> mem, page0 |-> page0, fault |-> fault, log |-> <<>>]

\* The heap a handler leaves becomes the state.
Commit(h) ==
  /\ live' = h.live
  /\ nclips' = h.nclips
  /\ selected' = h.selected
  /\ linked' = h.linked
  /\ cell' = h.cell
  /\ parent' = h.parent
  /\ id' = h.id
  /\ isaudio' = h.isaudio
  /\ srcfile' = h.srcfile
  /\ layout_x' = h.layout_x
  /\ size_request' = h.size_request
  /\ allocation' = h.allocation
  /\ nb_added' = h.nb_added
  /\ cursor' = h.cursor
  /\ media_type' = h.media_type
  /\ gnlsource' = h.gnlsource
  /\ gnl' = h.gnl
  /\ allocated' = h.allocated
  /\ sf' = h.sf
  /\ mem' = h.mem
  /\ page0' = h.page0
  /\ fault' = h.fault

\* Every linked pair of live clips has equal selected flags.
InSync(h) ==
  \A a \in h.live :
    (h.linked[a] # NULL /\ h.linked[a] \in h.live)
      => h.selected[a] = h.selected[h.linked[a]]

\* One entry of the log: a signal emitted or a call into the toolkit.
\* insync and sel are the state of the heap at that moment, and at is the
\* heap itself at that moment, without its log.
Event(h, sig, clip, arg) ==
  [sig |-> sig, clip |-> clip, arg |-> arg, insync |-> InSync(h),
   sel |-> {m \in h.live : h.selected[m]},
   at |-> [h EXCEPT !.log = <<>>]]

Emit(h, sig, clip, arg) ==
  [h EXCEPT !.log = Append(@, Event(h, sig, clip, arg))]

\* pitivi_send_expose_event (widget): a repaint request for the clip.
pitivi_send_expose_event(h, w) == Emit(h, "expose", w, 0)

\* g_signal_emit_by_name (w, sig, ...): recorded in the log.
g_signal_emit_by_name(h, sig, w, arg) == Emit(h, sig, w, arg)

\* gtk_widget_grab_focus (widget)
gtk_widget_grab_focus(h, w) == Emit(h, "grab_focus", w, 0)

\* create_menupopup and gtk_menu_popup: the context menu is shown.
gtk_menu_popup(h, w, button) == Emit(h, "menu_popup", w, button)

(***************************************************************************)
(* Construction.                                                           *)
(***************************************************************************)

\* Pointers to a PitiviSourceFile: the null pointer, a descriptor of the
\* source list, or the descriptor copy owned by clip m.
NullSf == "null"
SrcfilePtr(m) == "srcfile" \o ToString(m)
SfPointers == {NullSf} \cup Descriptors \cup {SrcfilePtr(m) : m \in Objects}

\* The struct a non-null descriptor pointer points to.
Deref(h, p) ==
  IF p \in Descriptors THEN h.sf[p]
  ELSE h.srcfile[CHOOSE m \in Objects : SrcfilePtr(m) = p]

\* g_new0: a zeroed block of the heap, owned by clip m.
g_new0(h, m, block) == [h EXCEPT !.allocated = @ \cup {<<m, block>>}]

\* g_free
g_free(h, m, block) == [h EXCEPT !.allocated = @ \ {<<m, block>>}]

\* check_media_type (sf): the layer type of a descriptor, from its media
\* kind tag.
check_media_type(h, p) ==
  LET kind == h.mem[Deref(h, p).mediatype]
  IN CASE kind = "video" -> PITIVI_VIDEO_TRACK
       [] kind = "audio" -> PITIVI_AUDIO_TRACK
       [] kind = "transition" -> PITIVI_TRANSITION_TRACK
       [] OTHER -> PITIVI_NO_TRACK

\* gnl_source_new (name, pipeline): a new engine object, handed to clip m.
gnl_source_new(h, m, name, pipeline) ==
  [Emit(h, "gnl_source_new", m, 0) EXCEPT
     !.gnlsource[m] = m,
     !.gnl[m] = [NoSource EXCEPT !.name = name, !.pipeline = pipeline]]

\* gnl_object_set_media_start_stop (object, start, stop)
gnl_object_set_media_start_stop(h, o, start, stop) ==
  [h EXCEPT !.gnl[o].media_start = start, !.gnl[o].media_stop = stop]

\* gnl_object_set_start_stop (object, start, stop)
gnl_object_set_start_stop(h, o, start, stop) ==
  [h EXCEPT !.gnl[o].start = start, !.gnl[o].stop = stop]

\* gnl_object_set_priority (object, priority)
gnl_object_set_priority(h, o, priority) ==
  [h EXCEPT !.gnl[o].priority = priority]

\* pitivi_timelinemedia_instance_init: the private block is allocated and
\* selected = FALSE; the instance memory is zeroed by the object system, so
\* linked is NULL.
pitivi_timelinemedia_instance_init(h, m) ==
  [g_new0(h, m, "private") EXCEPT
            !.live = @ \cup {m},
            !.selected[m] = FALSE,
            !.linked[m] = NULL,
            !.allocation[m] = NoAllocation]

\* pitivi_timelinemedia_set_property, for the properties given to
\* g_object_new: media_type and cell (source_file is the pointer the
\* constructor reads).
pitivi_timelinemedia_set_property(h, m, type, c) ==
  [h EXCEPT !.media_type[m] = type, !.cell[m] = c]

\* The name of the engine object: sprintf (name, "%s_%s_%lld", filename,
\* mediatype, id).
SourceName(filename, mediatype, ident) ==
  filename \o "_" \o mediatype \o "_" \o ToString(ident)

\* Line 295: the media range of the new engine object of clip m is
\* [0, srcfile->length].
constructor_media_range(h, m) ==
  gnl_object_set_media_start_stop(h, h.gnlsource[m], 0, h.srcfile[m].length)

\* The constructor from line 289 on: the engine object, unless the track
\* given as "cell" is a transition track.  strlen reads through the file
\* name pointer, which is null in a zeroed descriptor copy.
constructor_gnlsource(h, m, c) ==
  IF track_type(c) # PITIVI_TRANSITION_TRACK
    THEN IF h.srcfile[m].filename = NoBuffer /\ h.page0 = "fault"
           THEN [h EXCEPT !.fault = TRUE]
           ELSE constructor_media_range(
                  gnl_source_new(h, m,
                                 SourceName(h.mem[h.srcfile[m].filename],
                                            h.mem[h.srcfile[m].mediatype],
                                            h.id[m]),
                                 h.srcfile[m].pipeline),
                  m)
    ELSE h

\* Lines 281-282: the source item and the descriptor copy are allocated,
\* both zeroed.
constructor_alloc(h, m) ==
  [g_new0(g_new0(h, m, "sourceitem"), m, "srcfile") EXCEPT
     !.srcfile[m] = NoSourceFile,
     !.id[m] = 0,
     !.isaudio[m] = FALSE,
     !.gnlsource[m] = NULL]

\* Lines 283-287: the struct sfp points to is copied by memcpy (a null
\* sfp is read as page 0 is), the identifier is read from the counter of
\* the track given as "cell", and the audio flag is set on an audio track.
constructor_copy(h, m, sfp, c) ==
  [h EXCEPT !.srcfile[m] = IF sfp = NullSf THEN NoSourceFile ELSE Deref(h, sfp),
            !.id[m] = h.nb_added[c],
            !.isaudio[m] = IF track_type(c) = PITIVI_AUDIO_TRACK THEN TRUE ELSE @]

\* The constructor on the allocated blocks.  memcpy from a null pointer
\* reads page 0.
constructor_body(h, m, sfp, c) ==
  IF sfp = NullSf /\ h.page0 = "fault"
    THEN [h EXCEPT !.fault = TRUE]
    ELSE constructor_gnlsource(constructor_copy(h, m, sfp, c), m, c)

\* pitivi_timelinemedia_constructor
pitivi_timelinemedia_constructor(h, m, sfp, c) ==
  constructor_body(constructor_alloc(h, m), m, sfp, c)

\* g_object_new (PITIVI_TIMELINEMEDIA_TYPE, "source_file", sf, "media_type",
\* type, "cell", cell): the new object is number h.nclips + 1; instance_init
\* runs on it, the properties are set and the constructor runs.
g_object_new(h, sfp, type, c) ==
  pitivi_timelinemedia_constructor(
    pitivi_timelinemedia_set_property(
      pitivi_timelinemedia_instance_init([h EXCEPT !.nclips = @ + 1],
                                         h.nclips + 1),
      h.nclips + 1, type, c),
    h.nclips + 1, sfp, c)

\* Line 152: cell->nb_added[0] += 1.
new_increment(h, c) ==
  IF h.fault THEN h ELSE [h EXCEPT !.nb_added[c] = @ + 1]

\* The body of pitivi_timelinemedia_new without line 152: the counter of
\* the track is left as it is.
new_without_increment(h, sfp, c) ==
  g_object_new(h, sfp,
               IF sfp # NullSf THEN check_media_type(h, sfp) ELSE PITIVI_NO_TRACK,
               c)

\* pitivi_timelinemedia_new (sf, cell): the layer type of the descriptor,
\* g_object_new, then the counter of cell is incremented.
pitivi_timelinemedia_new(h, sfp, c) ==
  new_increment(
    g_object_new(h, sfp,
                 IF sfp # NullSf THEN check_media_type(h, sfp) ELSE PITIVI_NO_TRACK,
                 c),
    c)

\* gtk_layout_put (layout, child, x, 0)
gtk_layout_put(h, t, m, x) ==
  [h EXCEPT !.parent[m] = t, !.layout_x[m] = x]

\* gtk_widget_set_size_request (widget, width, FIXED_HEIGHT)
gtk_widget_set_size_request(h, m, width) ==
  [h EXCEPT !.size_request[m] = width]

\* pitivi_timelinemedia_dispose: sets dispose_has_run in the private block
\* and chains up; it releases nothing the clip allocated.
pitivi_timelinemedia_dispose(h, w) == h

\* pitivi_timelinemedia_finalize: g_free (self->private), and nothing else.
pitivi_timelinemedia_finalize(h, w) == g_free(h, w, "private")

\* gtk_widget_destroy (widget): the object is disposed and finalized; its
\* memory is freed, so its fields carry no state any more.  References to
\* it held by other objects are left as they are, and so is the engine
\* object.
gtk_widget_destroy(h, w) ==
  [pitivi_timelinemedia_finalize(
     pitivi_timelinemedia_dispose(Emit(h, "destroy", w, 0), w), w) EXCEPT
            !.live = @ \ {w},
            !.media_type[w] = PITIVI_NO_TRACK,
            !.gnlsource[w] = NULL,
            !.selected[w] = FALSE,
            !.linked[w] = NULL,
            !.cell[w] = NoTrack,
            !.parent[w] = NoTrack,
            !.id[w] = 0,
            !.isaudio[w] = FALSE,
            !.srcfile[w] = NoSourceFile,
            !.layout_x[w] = 0,
            !.size_request[w] = 0,
            !.allocation[w] = NoAllocation]

(***************************************************************************)
(* Operations on the engine object of a clip.                              *)
(***************************************************************************)

\* pitivi_timelinemedia_set_start_stop
pitivi_timelinemedia_set_start_stop(h, media, start, stop) ==
  gnl_object_set_start_stop(h, h.gnlsource[media], start, stop)

\* A put that adds the media stop alone to the start ("- mstart" of line
\* 222 left out).
put_from_media_stop(h, media, start) ==
  LET mstop == h.gnl[h.gnlsource[media]].media_stop
  IN gnl_object_set_start_stop(h, h.gnlsource[media], start, start + mstop)

\* pitivi_timelinemedia_put
pitivi_timelinemedia_put(h, media, start) ==
  LET mstart == h.gnl[h.gnlsource[media]].media_start
      mstop == h.gnl[h.gnlsource[media]].media_stop
  IN gnl_object_set_start_stop(h, h.gnlsource[media], start,
                               start + mstop - mstart)

\* pitivi_timelinemedia_set_media_start_stop
pitivi_timelinemedia_set_media_start_stop(h, media, start, stop) ==
  gnl_object_set_media_start_stop(h, h.gnlsource[media], start, stop)

\* pitivi_timelinemedia_set_priority
pitivi_timelinemedia_set_priority(h, media, priority) ==
  gnl_object_set_priority(h, h.gnlsource[media], priority)

(***************************************************************************)
(* Paint.                                                                  *)
(***************************************************************************)

\* The paint routines: each draws on the window of the widget and writes
\* no field of a clip or a track.
show_audio_media(h, w) == Emit(h, "show_audio_media", w, 0)
show_video_media(h, w) == Emit(h, "show_video_media", w, 0)
show_effects_media(h, w) ==
  Emit(h, "show_effects_media", w, h.srcfile[w].thumbs_effect # NoBuffer)
draw_selection_dash(h, w) == Emit(h, "draw_selection_dash", w, 0)

\* An expose that chooses the paint routine by the media type of the clip
\* (the switch of line 250 on self->private->media_type).
expose_by_media_type(h, widget) ==
  LET h1 == Emit(h, "gdk_draw_rectangle", widget, 0)
      type == h.media_type[widget]
      h2 == CASE type = PITIVI_AUDIO_TRACK -> show_audio_media(h1, widget)
              [] type = PITIVI_VIDEO_TRACK -> show_video_media(h1, widget)
              [] type \in {PITIVI_EFFECTS_TRACK, PITIVI_TRANSITION_TRACK}
                   -> show_effects_media(h1, widget)
              [] OTHER -> h1
  IN IF h2.selected[widget] THEN draw_selection_dash(h2, widget) ELSE h2

\* pitivi_timelinemedia_expose
pitivi_timelinemedia_expose(h, widget) ==
  LET container == h.parent[widget]
      h1 == Emit(h, "gdk_draw_rectangle", widget, 0)
      type == track_type(container)
      h2 == CASE type = PITIVI_AUDIO_TRACK -> show_audio_media(h1, widget)
              [] type = PITIVI_VIDEO_TRACK -> show_video_media(h1, widget)
              [] type \in {PITIVI_EFFECTS_TRACK, PITIVI_TRANSITION_TRACK}
                   -> show_effects_media(h1, widget)
              [] OTHER -> h1
  IN IF h2.selected[widget] THEN draw_selection_dash(h2, widget) ELSE h2

(***************************************************************************)
(* Signal handlers of the clip.                                            *)
(***************************************************************************)

\* pitivi_timelinemedia_callb_deselect
pitivi_timelinemedia_callb_deselect(h, self) ==
  LET h1 == [h EXCEPT !.selected[self] = FALSE]
  IN pitivi_send_expose_event(h1, self)

\* The "deselect" signal emitted on the top-level window: the window hands
\* it to every clip of the timeline, in object order.
RECURSIVE DeselectFrom(_, _)
DeselectFrom(h, m) ==
  IF m > h.nclips THEN h
  ELSE DeselectFrom(IF m \in h.live
                      THEN pitivi_timelinemedia_callb_deselect(h, m)
                      ELSE h,
                    m + 1)

toplevel_deselect(h, w) ==
  DeselectFrom(g_signal_emit_by_name(h, "deselect", w, 0), 1)

\* A dissociate that forgets "linked->linked = NULL" (line 630).
callb_dissociate_one_sided(h, self) ==
  IF self \in h.live /\ h.linked[self] # NULL /\ h.selected[self]
    THEN LET lk == h.linked[self]
             h1 == [h EXCEPT !.selected[lk] = FALSE]
             h2 == pitivi_send_expose_event(h1, lk)
         IN [h2 EXCEPT !.linked[self] = NULL]
    ELSE h

\* A dissociate that does not test self->selected (line 626 left out).
callb_dissociate_unselected(h, self) ==
  IF self \in h.live /\ h.linked[self] # NULL
    THEN LET lk == h.linked[self]
             h1 == [h EXCEPT !.selected[lk] = FALSE]
             h2 == pitivi_send_expose_event(h1, lk)
             h3 == [h2 EXCEPT !.linked[lk] = NULL]
         IN [h3 EXCEPT !.linked[self] = NULL]
    ELSE h

\* A dissociate that clears the selected flag of self instead of the
\* sibling's (line 628 on the wrong clip).
callb_dissociate_deselects_self(h, self) ==
  IF self \in h.live /\ h.linked[self] # NULL /\ h.selected[self]
    THEN LET lk == h.linked[self]
             h1 == [h EXCEPT !.selected[self] = FALSE]
             h2 == pitivi_send_expose_event(h1, lk)
             h3 == [h2 EXCEPT !.linked[lk] = NULL]
         IN [h3 EXCEPT !.linked[self] = NULL]
    ELSE h

\* pitivi_timelinemedia_callb_dissociate
pitivi_timelinemedia_callb_dissociate(h, self) ==
  IF self \in h.live /\ h.linked[self] # NULL
    THEN IF h.selected[self]
           THEN LET lk == h.linked[self]
                    h1 == [h EXCEPT !.selected[lk] = FALSE]
                    h2 == pitivi_send_expose_event(h1, lk)
                    h3 == [h2 EXCEPT !.linked[lk] = NULL]
                IN [h3 EXCEPT !.linked[self] = NULL]
           ELSE h
    ELSE h

\* A delete that leaves the linked sibling alone (lines 640-641 left out).
callb_destroy_self_only(h, self) ==
  IF h.selected[self] THEN gtk_widget_destroy(h, self) ELSE h

\* A delete that destroys the linked sibling only when the sibling is
\* selected too (line 640 with a test of self->linked->selected added).
callb_destroy_selected_sibling(h, self) ==
  IF h.selected[self]
    THEN gtk_widget_destroy(
           IF h.linked[self] # NULL /\ h.selected[h.linked[self]]
             THEN gtk_widget_destroy(h, h.linked[self])
             ELSE h,
           self)
    ELSE h

\* pitivi_timelinemedia_callb_destroy
pitivi_timelinemedia_callb_destroy(h, self) ==
  IF h.selected[self]
    THEN LET h1 == IF h.linked[self] # NULL
                     THEN gtk_widget_destroy(h, h.linked[self])
                     ELSE h
         IN gtk_widget_destroy(h1, self)
    ELSE h

\* pitivi_timelinemedia_callb_key_release_event: a delete, for any key.
pitivi_timelinemedia_callb_key_release_event(h, self, key) ==
  pitivi_timelinemedia_callb_destroy(h, self)

\* The key_release_event slot of the widget class.  class_init fills the
\* slots expose_event, size_request, realize, motion_notify_event,
\* configure_event, button_release_event and button_press_event; it leaves
\* key_release_event as inherited from GtkWidget, whose handler touches no
\* field of the clip.
widget_class_key_release_event(h, self, key) == h

(***************************************************************************)
(* Pointer events.                                                         *)
(***************************************************************************)

\* A press that toggles the pressed clip alone (lines 548-549 and 554-555
\* left out).
button_press_event_self_only(h, self, button, cur) ==
  IF cur = PITIVI_CURSOR_SELECT /\ button = 1
    THEN LET h1 == IF ~h.selected[self]
                     THEN [toplevel_deselect(h, self) EXCEPT !.selected[self] = TRUE]
                     ELSE [h EXCEPT !.selected[self] = FALSE]
             h2 == gtk_widget_grab_focus(h1, self)
             h3 == pitivi_send_expose_event(h2, self)
         IN IF h3.linked[self] # NULL
              THEN pitivi_send_expose_event(h3, h3.linked[self])
              ELSE h3
    ELSE IF cur = PITIVI_CURSOR_SELECT THEN gtk_menu_popup(h, self, button) ELSE h

\* A press that sets the flags first and emits "deselect" afterwards (lines
\* 546 and 547-549 exchanged).
button_press_event_late_deselect(h, self, button, cur) ==
  IF cur = PITIVI_CURSOR_SELECT /\ button = 1
    THEN LET h1 == IF ~h.selected[self]
                     THEN LET d1 == [h EXCEPT !.selected[self] = TRUE]
                              d2 == IF d1.linked[self] # NULL
                                      THEN [d1 EXCEPT !.selected[d1.linked[self]] = TRUE]
                                      ELSE d1
                          IN toplevel_deselect(d2, self)
                     ELSE LET d1 == [h EXCEPT !.selected[self] = FALSE]
                          IN IF d1.linked[self] # NULL
                               THEN [d1 EXCEPT !.selected[d1.linked[self]] = FALSE]
                               ELSE d1
             h2 == gtk_widget_grab_focus(h1, self)
             h3 == pitivi_send_expose_event(h2, self)
         IN IF h3.linked[self] # NULL
              THEN pitivi_send_expose_event(h3, h3.linked[self])
              ELSE h3
    ELSE IF cur = PITIVI_CURSOR_SELECT THEN gtk_menu_popup(h, self, button) ELSE h

\* pitivi_timelinemedia_button_press_event, with cur the cursor type read
\* through pitivi_getcursor_id.
pitivi_timelinemedia_button_press_event(h, self, button, cur) ==
  IF cur = PITIVI_CURSOR_SELECT
    THEN IF button = 1
           THEN LET h1 == IF ~h.selected[self]
                            THEN LET d1 == toplevel_deselect(h, self)
                                     d2 == [d1 EXCEPT !.selected[self] = TRUE]
                                 IN IF d2.linked[self] # NULL
                                      THEN [d2 EXCEPT !.selected[d2.linked[self]] = TRUE]
                                      ELSE d2
                            ELSE LET d1 == [h EXCEPT !.selected[self] = FALSE]
                                 IN IF d1.linked[self] # NULL
                                      THEN [d1 EXCEPT !.selected[d1.linked[self]] = FALSE]
                                      ELSE d1
                    h2 == gtk_widget_grab_focus(h1, self)
                    h3 == pitivi_send_expose_event(h2, self)
                IN IF h3.linked[self] # NULL
                     THEN pitivi_send_expose_event(h3, h3.linked[self])
                     ELSE h3
           ELSE gtk_menu_popup(h, self, button)
    ELSE h

\* The outcomes of converting the double v to a guint.  A guint is written
\* here as the gint with the same 32 bits, which is the value
\* gtk_widget_set_size_request receives for it.  The conversion of a
\* negative double is undefined: the build either keeps the low 32 bits
\* (ub = "wrap": the value 2^32 + v, written v) or saturates (ub =
\* "saturate": 0).
UBOutcomes == {"wrap", "saturate"}

guint_of_double(v, ub) ==
  IF v >= 0 THEN v
  ELSE IF ub = "wrap" THEN v ELSE 0

\* Lines 589-593 on the heap left by the first pitivi_timelinemedia_new,
\* whose object media[0] is number h.nclips: it is put in the track at pos
\* with the width of the cut, self is shrunk, the counter is incremented.
release_place_first(h, self, container, pos, width, x) ==
  [gtk_widget_set_size_request(
     gtk_widget_set_size_request(
       gtk_layout_put(h, container, h.nclips, pos), h.nclips, width),
     self, x + 2)
   EXCEPT !.nb_added[container] = @ + 1]

\* Lines 597-600 on the heap left by the second pitivi_timelinemedia_new,
\* whose object media[1] is number h.nclips: it is put in the linked track
\* of the container, and the linked sibling lk is shrunk.
release_place_second(h, lk, container, pos, width, x) ==
  gtk_widget_set_size_request(
    gtk_widget_set_size_request(
      gtk_layout_put(h, linked_track(container), h.nclips, pos),
      h.nclips, width),
    lk, x + 2)

\* Lines 601-602 with the originals in place of the new halves.
release_link_originals(h, self) ==
  [h EXCEPT !.linked[h.nclips] = h.linked[self], !.linked[h.nclips - 1] = self]

\* Lines 601-602: media[1]->linked = media[0]; media[0]->linked = media[1].
\* media[1] is object number h.nclips and media[0] the one before it.
release_link(h) ==
  [h EXCEPT !.linked[h.nclips] = h.nclips - 1, !.linked[h.nclips - 1] = h.nclips]

\* Line 603: container->nb_added[0] += 1.
release_increment(h, container) == [h EXCEPT !.nb_added[container] = @ + 1]

\* Lines 594-604 with the originals linked to the new halves.
release_linked_to_originals(h, self, container, pos, width, x) ==
  IF h.linked[self] # NULL
    THEN release_increment(
           release_link_originals(
             release_place_second(
               pitivi_timelinemedia_new(h, SrcfilePtr(h.linked[self]), container),
               h.linked[self], container, pos, width, x),
             self),
           container)
    ELSE h

\* Lines 594-604: the cut of the linked sibling.
release_linked(h, self, container, pos, width, x) ==
  IF h.linked[self] # NULL
    THEN release_increment(
           release_link(
             release_place_second(
               pitivi_timelinemedia_new(h, SrcfilePtr(h.linked[self]), container),
               h.linked[self], container, pos, width, x)),
           container)
    ELSE h

\* Lines 584-605 with the notification of line 605 moved before the cut of
\* the linked sibling (lines 594-604).
release_cut_notifies_early(h, self, container, pos, width, x) ==
  release_linked(
    g_signal_emit_by_name(
      release_place_first(
        pitivi_timelinemedia_new(h, SrcfilePtr(self), container),
        self, container, pos, width, x),
      "source-cut", self, x),
    self, container, pos, width, x)

\* Lines 584-605 for the position and width computed at lines 585-586.
release_cut(h, self, container, pos, width, x) ==
  g_signal_emit_by_name(
    release_linked(
      release_place_first(
        pitivi_timelinemedia_new(h, SrcfilePtr(self), container),
        self, container, pos, width, x),
      self, container, pos, width, x),
    "source-cut", self, x)

\* A release that links each new half to the clip it was cut from (lines
\* 601-602 with the originals in place of the new halves).
button_release_event_links_originals(h, self, x, cur, ub) ==
  IF cur = PITIVI_CURSOR_CUT
    THEN g_signal_emit_by_name(
           release_linked_to_originals(
             release_place_first(
               pitivi_timelinemedia_new(h, SrcfilePtr(self), h.parent[self]),
               self, h.parent[self],
               guint_of_double(h.allocation[self].x + x + 2, ub),
               guint_of_double(h.allocation[self].width - (x + 2), ub), x),
             self, h.parent[self],
             guint_of_double(h.allocation[self].x + x + 2, ub),
             guint_of_double(h.allocation[self].width - (x + 2), ub), x),
           "source-cut", self, x)
    ELSE h

\* A release that, after a cut, sets the process-wide cursor type back to
\* select.
button_release_event_resets_cursor(h, self, x, cur, ub) ==
  IF cur = PITIVI_CURSOR_CUT
    THEN [release_cut(h, self, h.parent[self],
                      guint_of_double(h.allocation[self].x + x + 2, ub),
                      guint_of_double(h.allocation[self].width - (x + 2), ub),
                      x)
          EXCEPT !.cursor = PITIVI_CURSOR_SELECT]
    ELSE h

\* pitivi_timelinemedia_button_release_event, with x the pointer offset
\* event->x and cur the cursor type read through pitivi_getcursor_id.
pitivi_timelinemedia_button_release_event(h, self, x, cur, ub) ==
  IF cur = PITIVI_CURSOR_CUT
    THEN release_cut(h, self, h.parent[self],
                     guint_of_double(h.allocation[self].x + x + 2, ub),
                     guint_of_double(h.allocation[self].width - (x + 2), ub),
                     x)
    ELSE h

\* pitivi_timelinemedia_size_allocate: widget->allocation = *allocation.
pitivi_timelinemedia_size_allocate(h, self, alloc) ==
  [h EXCEPT !.allocation[self] = alloc]

(***************************************************************************)
(* The state machine.                                                      *)
(***************************************************************************)

\* The empty timeline: no clip, the counters of the tracks at 0, the
\* descriptors as imported.
EmptyHeap(p0) ==
  [live |-> {}, nclips |-> 0,
   selected |-> [m \in Objects |-> FALSE],
   linked |-> [m \in Objects |-> NULL],
   cell |-> [m \in Objects |-> NoTrack],
   parent |-> [m \in Objects |-> NoTrack],
   id |-> [m \in Objects |-> 0],
   isaudio |-> [m \in Objects |-> FALSE],
   srcfile |-> [m \in Objects |-> NoSourceFile],
   layout_x |-> [m \in Objects |-> 0],
   size_request |-> [m \in Objects |-> 0],
   allocation |-> [m \in Objects |-> NoAllocation],
   nb_added |-> [t \in Tracks |-> 0],
   cursor |-> PITIVI_CURSOR_SELECT,
   media_type |-> [m \in Objects |-> PITIVI_NO_TRACK],
   gnlsource |-> [m \in Objects |-> NULL],
   gnl |-> [m \in Objects |-> NoSource],
   allocated |-> {}, sf |-> InitSf, mem |-> InitMem,
   page0 |-> p0, fault |-> FALSE, log |-> <<>>]

\* The track code adds a clip for the descriptor sfp to track c: it
\* constructs the clip and puts it in the layout of the track.
cellrenderer_add(h, sfp, c) ==
  LET h1 == pitivi_timelinemedia_new(h, sfp, c)
      m == h1.nclips
  IN IF h1.fault THEN h1
     ELSE gtk_widget_set_size_request(gtk_layout_put(h1, c, m, 0), m, InitWidth)

\* One import dropped on the timeline: clip 1 on the video track and
\* clip 2 on the audio track, linked to each other by the track code, at
\* the same position and of the same width, and allocated.
PairHeap(p0) ==
  LET h1 == cellrenderer_add(EmptyHeap(p0), "DV", "V")
      h2 == cellrenderer_add(h1, "DA", "A")
  IN [h2 EXCEPT !.linked[1] = 2, !.linked[2] = 1,
                !.allocation[1] = [x |-> 0, width |-> InitWidth],
                !.allocation[2] = [x |-> 0, width |-> InitWidth]]

\* The state is the heap h.
HeapIs(h) ==
  /\ live = h.live
  /\ nclips = h.nclips
  /\ selected = h.selected
  /\ linked = h.linked
  /\ cell = h.cell
  /\ parent = h.parent
  /\ id = h.id
  /\ isaudio = h.isaudio
  /\ srcfile = h.srcfile
  /\ layout_x = h.layout_x
  /\ size_request = h.size_request
  /\ allocation = h.allocation
  /\ nb_added = h.nb_added
  /\ cursor = h.cursor
  /\ media_type = h.media_type
  /\ gnlsource = h.gnlsource
  /\ gnl = h.gnl
  /\ allocated = h.allocated
  /\ sf = h.sf
  /\ mem = h.mem
  /\ page0 = h.page0
  /\ fault = h.fault

\* The timeline holds one linked pair; nothing is selected.  No null
\* pointer is read from here on, so one outcome of such a read stands for
\* both.
Init ==
  /\ HeapIs(PairHeap("fault"))
  /\ ncuts = 0
  /\ ncreates = 2
  /\ nops = 0

\* The timeline is empty.
InitLife ==
  /\ \E p0 \in NullReadOutcomes : HeapIs(EmptyHeap(p0))
  /\ ncuts = 0
  /\ ncreates = 0
  /\ nops = 0

\* The clip has been allocated by its layout, so its window is where the
\* pointer can reach it.
Allocated(m) == m \in live /\ allocation[m] # NoAllocation

\* The user picks another tool: the cursor type changes.
SetCursor(t) ==
  /\ ~fault
  /\ t # cursor
  /\ Commit([Heap EXCEPT !.cursor = t])
  /\ UNCHANGED <<ncuts, ncreates, nops>>

\* The track code constructs a clip for the descriptor sfp in track c.
Create(sfp, c) ==
  /\ ~fault
  /\ ncreates < MaxCreates
  /\ Commit(cellrenderer_add(Heap, sfp, c))
  /\ ncreates' = ncreates + 1
  /\ UNCHANGED <<ncuts, nops>>

\* A button press on clip self.
ButtonPress(self, button) ==
  /\ ~fault
  /\ Allocated(self)
  /\ Commit(pitivi_timelinemedia_button_press_event(Heap, self, button, cursor))
  /\ UNCHANGED <<ncuts, ncreates, nops>>

\* A button release on clip self at pointer offset x.
ButtonRelease(self, x, ub) ==
  /\ ~fault
  /\ Allocated(self)
  /\ cursor = PITIVI_CURSOR_CUT => ncuts < MaxCuts
  /\ Commit(pitivi_timelinemedia_button_release_event(Heap, self, x, cursor, ub))
  /\ ncuts' = IF cursor = PITIVI_CURSOR_CUT THEN ncuts + 1 ELSE ncuts
  /\ UNCHANGED <<ncreates, nops>>

\* A key release on clip self.
KeyRelease(self, key) ==
  /\ ~fault
  /\ Allocated(self)
  /\ Commit(widget_class_key_release_event(Heap, self, key))
  /\ UNCHANGED <<ncuts, ncreates, nops>>

\* An expose event on clip self.
Expose(self) ==
  /\ ~fault
  /\ Allocated(self)
  /\ Commit(pitivi_timelinemedia_expose(Heap, self))
  /\ UNCHANGED <<ncuts, ncreates, nops>>

\* The "deselect" signal delivered to clip self.
Deselect(self) ==
  /\ ~fault
  /\ self \in live
  /\ Commit(pitivi_timelinemedia_callb_deselect(Heap, self))
  /\ UNCHANGED <<ncuts, ncreates, nops>>

\* "Dissociate" of the context menu, or the "dissociate" signal.
Dissociate(self) ==
  /\ ~fault
  /\ self \in live
  /\ Commit(pitivi_timelinemedia_callb_dissociate(Heap, self))
  /\ UNCHANGED <<ncuts, ncreates, nops>>

\* "Delete" of the context menu.
Destroy(self) ==
  /\ ~fault
  /\ self \in live
  /\ Commit(pitivi_timelinemedia_callb_destroy(Heap, self))
  /\ UNCHANGED <<ncuts, ncreates, nops>>

\* The allocation the layout gives clip m: the position it was put at and
\* the width requested for it.
LayoutAllocation(m) == [x |-> layout_x[m], width |-> size_request[m]]

\* The clips whose layout has a resize queued by gtk_layout_put or
\* gtk_widget_set_size_request, and a valid request to allocate.
NeedsAllocation(m) ==
  m \in live /\ size_request[m] >= 1 /\ allocation[m] # LayoutAllocation(m)

RECURSIVE AllocateFrom(_, _)
AllocateFrom(h, m) ==
  IF m > h.nclips THEN h
  ELSE AllocateFrom(IF NeedsAllocation(m)
                      THEN pitivi_timelinemedia_size_allocate(h, m, LayoutAllocation(m))
                      ELSE h,
                    m + 1)

\* The toolkit's resize pass: the layouts allocate their children, which
\* runs size_allocate on every clip a resize is queued for.
SizeAllocate ==
  /\ ~fault
  /\ \E m \in Objects : NeedsAllocation(m)
  /\ Commit(AllocateFrom(Heap, 1))
  /\ UNCHANGED <<ncuts, ncreates, nops>>

\* The times and priorities given to the engine.
Times == 0..MaxTime

\* The timeline code moves clip m to start.
Put(m, start) ==
  /\ ~fault
  /\ nops < MaxOps
  /\ m \in live /\ gnlsource[m] # NULL
  /\ Commit(pitivi_timelinemedia_put(Heap, m, start))
  /\ nops' = nops + 1
  /\ UNCHANGED <<ncuts, ncreates>>

\* The timeline code sets the play range of clip m.
SetStartStop(m, start, stop) ==
  /\ ~fault
  /\ nops < MaxOps
  /\ m \in live /\ gnlsource[m] # NULL
  /\ Commit(pitivi_timelinemedia_set_start_stop(Heap, m, start, stop))
  /\ nops' = nops + 1
  /\ UNCHANGED <<ncuts, ncreates>>

\* The timeline code trims clip m.
SetMediaStartStop(m, start, stop) ==
  /\ ~fault
  /\ nops < MaxOps
  /\ m \in live /\ gnlsource[m] # NULL
  /\ Commit(pitivi_timelinemedia_set_media_start_stop(Heap, m, start, stop))
  /\ nops' = nops + 1
  /\ UNCHANGED <<ncuts, ncreates>>

\* The timeline code sets the layer of clip m.
SetPriority(m, priority) ==
  /\ ~fault
  /\ nops < MaxOps
  /\ m \in live /\ gnlsource[m] # NULL
  /\ Commit(pitivi_timelinemedia_set_priority(Heap, m, priority))
  /\ nops' = nops + 1
  /\ UNCHANGED <<ncuts, ncreates>>

\* The source list writes what the pointer field f of descriptor d points
\* to: the buffer is rewritten where it is.
WriteThrough(d, f) ==
  /\ ~fault
  /\ nops < MaxOps
  /\ sf[d][f] # NoBuffer
  /\ Commit([Heap EXCEPT !.mem[sf[d][f]] = "rewritten"])
  /\ nops' = nops + 1
  /\ UNCHANGED <<ncuts, ncreates>>

\* The source list gives the pointer field f of descriptor d another
\* buffer to point to.
AssignPointer(d, f) ==
  /\ ~fault
  /\ nops < MaxOps
  /\ sf[d][f] # "spare"
  /\ Commit([Heap EXCEPT !.sf[d][f] = "spare"])
  /\ nops' = nops + 1
  /\ UNCHANGED <<ncuts, ncreates>>

\* The source list sets the length of descriptor d.
AssignLength(d, len) ==
  /\ ~fault
  /\ nops < MaxOps
  /\ sf[d].length # len
  /\ Commit([Heap EXCEPT !.sf[d].length = len])
  /\ nops' = nops + 1
  /\ UNCHANGED <<ncuts, ncreates>>

\* The events of the toolkit on the clips.
ClipEvents ==
  \/ \E t \in CursorTypes : SetCursor(t)
  \/ \E self \in Objects : \E button \in {1, 3} : ButtonPress(self, button)
  \/ \E self \in Objects : \E x \in 0..allocation[self].width :
       \E ub \in UBOutcomes : ButtonRelease(self, x, ub)
  \/ \E self \in Objects : \E key \in {"Delete", "a"} : KeyRelease(self, key)
  \/ \E self \in Objects : Expose(self)
  \/ \E self \in Objects : Deselect(self)
  \/ \E self \in Objects : Dissociate(self)
  \/ \E self \in Objects : Destroy(self)
  \/ SizeAllocate

Next == ClipEvents

Spec == Init /\ [][Next]_vars

\* The life of clips on a timeline that starts empty.
NextLife ==
  \/ \E sfp \in {NullSf} \cup Descriptors : \E c \in Tracks : Create(sfp, c)
  \/ ClipEvents

SpecLife == InitLife /\ [][NextLife]_vars

\* The composition engine and the source list at work on the pair.
NextSources ==
  \/ \E m \in Objects : \E start \in Times : Put(m, start)
  \/ \E m \in Objects : \E start \in Times : \E stop \in Times :
       SetStartStop(m, start, stop)
  \/ \E m \in Objects : \E start \in Times : \E stop \in Times :
       SetMediaStartStop(m, start, stop)
  \/ \E m \in Objects : \E priority \in Times : SetPriority(m, priority)
  \/ \E d \in Descriptors : \E f \in PointerFields : WriteThrough(d, f)
  \/ \E d \in Descriptors : \E f \in PointerFields : AssignPointer(d, f)
  \/ \E d \in Descriptors : \E len \in Times : AssignLength(d, len)

SpecSources == Init /\ [][NextSources]_vars

(***************************************************************************)
(* Properties.                                                             *)
(***************************************************************************)

\* The clips that are selected.
SelectedSet == {m \in live : selected[m]}

\* The linked sibling of clip c, as a set: empty when c is not linked.
Sibling(c) == IF linked[c] # NULL THEN {linked[c]} ELSE {}

\* C1.  Link symmetry: in every reachable state, for all live clips A and
\* B, A.linked = B if and only if B.linked = A.
LinkSymmetry ==
  \A a \in live : \A b \in live : (linked[a] = b) <=> (linked[b] = a)

\* Reached after a cut of the linked pair 1, 2 (its new halves 3 and 4 are
\* linked to each other) followed by a dissociate of the pair 1, 2.
LinkSymmetryWitness ==
  /\ {1, 2, 3, 4} \subseteq live
  /\ linked[3] = 4 /\ linked[4] = 3
  /\ linked[1] = NULL /\ linked[2] = NULL

\* C2.  Selection synchrony: in every reachable state, any two live clips
\* A and B with A.linked = B have A.selected = B.selected.
SelectionSynchrony ==
  \A a \in live : \A b \in live : linked[a] = b => selected[a] = selected[b]

\* C3.  A primary press in select mode on a clip with a linked sibling
\* toggles the pair together: an unselected clip and its sibling are both
\* selected afterwards, a selected clip and its sibling both unselected.
PressTogglesPair ==
  [][\A c \in Objects :
       (/\ cursor = PITIVI_CURSOR_SELECT
        /\ c \in live
        /\ linked[c] # NULL
        /\ ButtonPress(c, 1))
       => IF selected[c]
            THEN ~selected'[c] /\ ~selected'[linked[c]]
            ELSE selected'[c] /\ selected'[linked[c]]]_vars

\* Only a primary press in select mode sets a selected flag: a linked pair
\* with both flags set has been toggled by one.
PressTogglesPairWitness ==
  \E c \in live :
    /\ linked[c] # NULL /\ linked[c] \in live
    /\ selected[c] /\ selected[linked[c]]

\* In every reachable state the selected clips are none, one clip, or the
\* two clips of one linked pair.
SelectedShape ==
  \/ SelectedSet = {}
  \/ \E c \in live :
       \/ SelectedSet = {c}
       \/ /\ linked[c] \in live
          /\ linked[linked[c]] = c
          /\ SelectedSet = {c, linked[c]}

\* What a primary press on the unselected clip c does in the current
\* state, in select mode: "deselect" is the first thing it emits, the flag
\* of c is still clear at that moment, and the clips selected when it
\* returns are c and its linked sibling.
PressSelectsExclusively(c) ==
  LET r == pitivi_timelinemedia_button_press_event(Heap, c, 1, cursor)
  IN /\ r.log # <<>>
     /\ Head(r.log).sig = "deselect"
     /\ c \notin Head(r.log).sel
     /\ {m \in r.live : r.selected[m]} = {c} \cup Sibling(c)

\* C4.  Exclusive selection: in every reachable state, a primary press in
\* select mode on an unselected clip emits the "deselect" broadcast before
\* it sets the clip's own flag, and leaves exactly the pressed clip and its
\* linked sibling selected; and the selected clips of every reachable state
\* are none, one clip or one linked pair.
ExclusiveSelection ==
  /\ SelectedShape
  /\ \A c \in live :
       (cursor = PITIVI_CURSOR_SELECT /\ Allocated(c) /\ ~selected[c])
         => PressSelectsExclusively(c)

\* The pair of the cut halves 3 and 4 is the whole selection although the
\* clips 1 and 2 are live.
ExclusiveSelectionWitness ==
  /\ {1, 2, 3, 4} \subseteq live
  /\ linked[3] = 4
  /\ SelectedSet = {3, 4}

\* The signals and calls of a log, in order, each with the clip it is for.
Calls(lg) == [i \in 1..Len(lg) |-> <<lg[i].sig, lg[i].clip>>]

\* C5.  Dissociate on a clip that is unlinked or unselected is a no-op: in
\* every reachable state the handler, run on such a clip, returns the heap
\* as it found it (every selected flag and linked reference unchanged) and
\* an empty log (no repaint requested).
DissociateNoOp ==
  \A c \in live :
    (linked[c] = NULL \/ ~selected[c])
      => pitivi_timelinemedia_callb_dissociate(Heap, c) = Heap

\* Both cases of the no-op at once: clip 1 is selected and, a dissociate
\* having unlinked it, no longer linked; clip 3 is linked and unselected.
DissociateNoOpWitness ==
  /\ {1, 3} \subseteq live
  /\ selected[1] /\ linked[1] = NULL
  /\ ~selected[3] /\ linked[3] # NULL

\* C6.  Dissociate on a selected, linked clip clears the sibling's selected
\* flag, requests one repaint, of the sibling, and sets linked to NULL on
\* the clip and on the sibling; the clip stays selected and nothing else
\* changes.
DissociateEffect ==
  [][\A c \in Objects :
       (/\ c \in live
        /\ selected[c]
        /\ linked[c] # NULL
        /\ Dissociate(c))
       => LET lk == linked[c]
              r == pitivi_timelinemedia_callb_dissociate(Heap, c)
          IN /\ selected' = [selected EXCEPT ![lk] = FALSE]
             /\ selected'[c]
             /\ linked' = [linked EXCEPT ![c] = NULL, ![lk] = NULL]
             /\ Calls(r.log) = <<<<"expose", lk>>>>
             /\ UNCHANGED <<live, nclips, cell, parent, id, isaudio, srcfile,
                            layout_x, size_request, allocation, nb_added>>]_vars

\* The clips 1 and 2 of Init, linked there, are both unlinked, one of them
\* selected and the other not, while the pair 3, 4 is still linked.
DissociateEffectWitness ==
  /\ {1, 2, 3, 4} \subseteq live
  /\ linked[1] = NULL /\ linked[2] = NULL
  /\ selected[1] # selected[2]
  /\ linked[3] = 4 /\ linked[4] = 3

\* C7.  Delete on a selected clip destroys its linked sibling, if any, and
\* then the clip, and no other clip; delete on an unselected clip destroys
\* nothing and changes nothing.  In every reachable state this is what the
\* handler does.
DeleteEffect ==
  \A c \in live :
    LET r == pitivi_timelinemedia_callb_destroy(Heap, c)
    IN IF selected[c]
         THEN /\ r.live = live \ ({c} \cup Sibling(c))
              /\ Calls(r.log) = IF linked[c] # NULL
                                  THEN <<<<"destroy", linked[c]>>, <<"destroy", c>>>>
                                  ELSE <<<<"destroy", c>>>>
              /\ \A m \in r.live :
                   /\ r.selected[m] = selected[m]
                   /\ r.linked[m] = linked[m]
         ELSE r = Heap

\* The clips 1 and 2 of Init are destroyed; the cut halves 3 and 4 are not.
DeleteEffectWitness ==
  /\ 1 \notin live /\ 2 \notin live
  /\ {3, 4} \subseteq live

\* C8.  A cut of a clip of allocated width W at absolute x = P, at pointer
\* offset X, for every X with 0 <= X <= W, puts the new clip at P + X + 2
\* with requested width W - (X + 2) and requests width X + 2 for the
\* original: the two widths sum to W and neither is negative or a wrapped
\* unsigned value.
CutWidths ==
  [][\A c \in Objects : \A x \in 0..allocation[c].width : \A ub \in UBOutcomes :
       (/\ cursor = PITIVI_CURSOR_CUT
        /\ c \in live
        /\ ButtonRelease(c, x, ub))
       => LET new == nclips + 1
              W == allocation[c].width
              P == allocation[c].x
          IN /\ layout_x'[new] = P + x + 2
             /\ size_request'[new] = W - (x + 2)
             /\ size_request'[c] = x + 2
             /\ size_request'[new] + size_request'[c] = W
             /\ size_request'[new] >= 0
             /\ size_request'[c] >= 0]_vars

\* C9.  A cut of a clip A linked to B creates two clips A' and B' linked
\* to each other and to neither A nor B, and leaves A and B linked to each
\* other: one linked pair becomes two.
CutRelinks ==
  [][\A c \in Objects : \A x \in 0..allocation[c].width : \A ub \in UBOutcomes :
       (/\ cursor = PITIVI_CURSOR_CUT
        /\ c \in live
        /\ linked[c] # NULL
        /\ ButtonRelease(c, x, ub))
       => LET a == nclips + 1
              b == nclips + 2
          IN /\ live' = live \cup {a, b}
             /\ linked'[a] = b /\ linked'[b] = a
             /\ linked'[c] = linked[c]
             /\ linked'[linked[c]] = c]_vars

\* The pair 1, 2 of Init has been cut: its halves 3 and 4 are linked to
\* each other and the clips 1 and 2 are still linked to each other.
CutRelinksWitness ==
  /\ {1, 2, 3, 4} \subseteq live
  /\ linked[3] = 4 /\ linked[4] = 3
  /\ linked[1] = 2 /\ linked[2] = 1

\* C10.  In a cut of a linked clip the mirrored cut is made on the
\* sibling's track: the new half for the sibling is constructed against
\* the sibling's track (track reference, audio flag and the counter its
\* identifier is read from), is put in the sibling's track at the position
\* and with the width of the first new half, and the sibling is shrunk to
\* the width of the original.
CutMirrorsOnSiblingTrack ==
  [][\A c \in Objects : \A x \in 0..allocation[c].width : \A ub \in UBOutcomes :
       (/\ cursor = PITIVI_CURSOR_CUT
        /\ c \in live
        /\ linked[c] # NULL
        /\ ButtonRelease(c, x, ub))
       => LET a == nclips + 1
              b == nclips + 2
              lk == linked[c]
              t == parent[lk]
          IN /\ cell'[b] = t
             /\ isaudio'[b] = (track_type(t) = PITIVI_AUDIO_TRACK)
             /\ id'[b] = nb_added[t]
             /\ parent'[b] = t
             /\ layout_x'[b] = layout_x'[a]
             /\ size_request'[b] = size_request'[a]
             /\ size_request'[lk] = size_request'[c]]_vars

\* The number of entries of the log lg with signal or call sig.
CountSig(lg, sig) == Cardinality({i \in 1..Len(lg) : lg[i].sig = sig})

\* The name the engine object of clip m is to have.
ExpectedName(m) ==
  SourceName(mem[srcfile[m].filename], mem[srcfile[m].mediatype], id[m])

\* C11.  Construction of a clip whose descriptor is of kind transition
\* creates no engine object; construction with a descriptor of any other
\* kind creates exactly one, named filename_mediaKind_identifier, and the
\* handle of that clip is non-null in every later state.  In every state,
\* every live clip of media type transition has a null handle and every
\* live clip of another media type has a handle to an object of that name;
\* and every construction from a descriptor calls gnl_source_new once, or
\* never if the descriptor is of kind transition.
EngineObjectByKind ==
  /\ [](\A m \in live :
          IF media_type[m] = PITIVI_TRANSITION_TRACK
            THEN gnlsource[m] = NULL
            ELSE media_type[m] # PITIVI_NO_TRACK
                   => /\ gnlsource[m] # NULL
                      /\ gnl[gnlsource[m]].name = ExpectedName(m))
  /\ [][\A sfp \in Descriptors : \A c \in Tracks :
          Create(sfp, c)
            => CountSig(cellrenderer_add(Heap, sfp, c).log, "gnl_source_new")
                 = IF check_media_type(Heap, sfp) = PITIVI_TRANSITION_TRACK
                     THEN 0 ELSE 1]_vars

\* C12.  The insertion counter of a track never decreases under any
\* sequence of creates and cuts, each create increments it, and the
\* identifier of a new clip is read from it, so that two clips constructed
\* against the same track have distinct identifiers, increasing in the
\* order of construction.
CounterMonotone ==
  /\ [](~fault => \A a \in live : \A b \in live :
                    (a < b /\ cell[a] = cell[b]) => id[a] < id[b])
  /\ [][\A t \in Tracks : nb_added'[t] >= nb_added[t]]_vars
  /\ [][\A sfp \in SfPointers : \A c \in Tracks :
          (Create(sfp, c) /\ ~fault')
            => /\ nb_added'[c] = nb_added[c] + 1
               /\ id'[nclips + 1] = nb_added[c]
               /\ cell'[nclips + 1] = c]_vars

\* Three clips constructed against one track are live: two by creates and
\* one by a cut.
CounterMonotoneWitness ==
  /\ ~fault /\ ncreates >= 2 /\ ncuts >= 1
  /\ \E a \in live : \E b \in live : \E c \in live :
       a < b /\ b < c /\ cell[a] = cell[b] /\ cell[b] = cell[c]

\* The fields of the heap h, without its log.
StateOf(h) == [h EXCEPT !.log = <<>>]

\* C13.  A key release delivered to a clip has the effect of a delete
\* request on that clip, for every key: in every reachable state, what the
\* key_release_event slot of the class does to the heap is what
\* pitivi_timelinemedia_callb_destroy does to it (a selected clip and its
\* linked sibling are destroyed, otherwise nothing changes).
KeyReleaseDeletes ==
  \A c \in live : \A key \in {"Delete", "a"} :
    Allocated(c)
      => StateOf(widget_class_key_release_event(Heap, c, key))
           = StateOf(pitivi_timelinemedia_callb_destroy(Heap, c))

\* What is observed through the descriptor struct d when the buffers hold
\* memory: the length, and what the pointers lead to.
Observed(d, memory) ==
  [filename |-> memory[d.filename], mediatype |-> memory[d.mediatype],
   length |-> d.length, pipeline |-> memory[d.pipeline],
   thumbs_effect |-> memory[d.thumbs_effect]]

\* C14.  Descriptor isolation: after a clip is constructed from a
\* descriptor D, no later mutation of D, of any of its fields, changes the
\* value observed through the clip's own descriptor copy.  Every step that
\* writes a descriptor of the source list or what it points to leaves
\* what is observed through the copy of every live clip as it was.
DescriptorIsolation ==
  [][(sf' # sf \/ mem' # mem)
       => \A m \in live :
            Observed(srcfile'[m], mem') = Observed(srcfile[m], mem)]_vars

\* C15.  After a clip is destroyed, the descriptor copy and the source
\* item it allocated at construction are released: in every reachable
\* state no allocated block is owned by a clip that has been destroyed.
NoLeakedBlocks ==
  {blk \in allocated : blk[1] \notin live} = {}

\* C16.  put (start) repositions a clip and preserves its media-relative
\* offsets: afterwards the play start of the engine object is start and
\* its play stop is start + (media stop - media start), and the media
\* range, the priority and everything else are unchanged; for a freshly
\* constructed clip with an engine object the play range is
\* [start, start + descriptor.length].  In every reachable state this is
\* what pitivi_timelinemedia_put does, on every live clip with an engine
\* object and on every clip pitivi_timelinemedia_new would construct.
PutPreservesOffsets ==
  /\ \A m \in live : \A start \in Times :
       gnlsource[m] # NULL
         => LET o == gnlsource[m]
                r == pitivi_timelinemedia_put(Heap, m, start)
            IN /\ r.gnl[o].start = start
               /\ r.gnl[o].stop = start + (gnl[o].media_stop - gnl[o].media_start)
               /\ r = [Heap EXCEPT !.gnl[o].start = r.gnl[o].start,
                                   !.gnl[o].stop = r.gnl[o].stop]
  /\ \A sfp \in Descriptors : \A c \in Tracks : \A start \in Times :
       LET r0 == pitivi_timelinemedia_new(Heap, sfp, c)
           m == r0.nclips
       IN r0.gnlsource[m] # NULL
            => LET r == pitivi_timelinemedia_put(r0, m, start)
               IN /\ r.gnl[r.gnlsource[m]].start = start
                  /\ r.gnl[r.gnlsource[m]].stop = start + sf[sfp].length

\* A clip with the media range [0, 3] of its construction has been put at
\* 1: its play range is [1, 4], which only put sets (set_start_stop is
\* given stops up to MaxTime).
PutPreservesOffsetsWitness ==
  \E m \in live :
    /\ gnlsource[m] # NULL
    /\ gnl[gnlsource[m]].media_start = 0
    /\ gnl[gnlsource[m]].media_stop = 3
    /\ gnl[gnlsource[m]].start = 1
    /\ gnl[gnlsource[m]].stop = 4

\* The selected flags, the linked references, the set of clips and the
\* counters of the tracks are in r what they are in the state.
SameClips(r) ==
  /\ r.selected = selected
  /\ r.linked = linked
  /\ r.live = live
  /\ r.nclips = nclips
  /\ r.nb_added = nb_added

\* C17.  The process-wide cursor type is never modified by a handler of a
\* clip; and a press when the cursor type is not select, and a release
\* when it is not cut, leave every selected flag and linked reference, the
\* set of clips and the counter of every track unchanged.  In every
\* reachable state this is so for every handler, on every clip and with
\* every input.
CursorReadOnly ==
  \A c \in live :
    /\ \A button \in {1, 3} :
         LET r == pitivi_timelinemedia_button_press_event(Heap, c, button, cursor)
         IN /\ r.cursor = cursor
            /\ cursor # PITIVI_CURSOR_SELECT => SameClips(r)
    /\ (Allocated(c) /\ (cursor = PITIVI_CURSOR_CUT => ncuts < MaxCuts))
         => \A x \in 0..allocation[c].width : \A ub \in UBOutcomes :
              LET r == pitivi_timelinemedia_button_release_event(Heap, c, x, cursor, ub)
              IN /\ r.cursor = cursor
                 /\ cursor # PITIVI_CURSOR_CUT => SameClips(r)
    /\ pitivi_timelinemedia_callb_deselect(Heap, c).cursor = cursor
    /\ pitivi_timelinemedia_callb_dissociate(Heap, c).cursor = cursor
    /\ pitivi_timelinemedia_callb_destroy(Heap, c).cursor = cursor
    /\ pitivi_timelinemedia_callb_key_release_event(Heap, c, "a").cursor = cursor
    /\ pitivi_timelinemedia_expose(Heap, c).cursor = cursor
    /\ pitivi_timelinemedia_size_allocate(Heap, c, LayoutAllocation(c)).cursor = cursor

\* A cut has been made and the cursor type is still cut, with a selected
\* pair that a press in select mode would toggle.
CursorReadOnlyWitness ==
  /\ cursor = PITIVI_CURSOR_CUT
  /\ ncuts >= 1
  /\ \E c \in live : selected[c] /\ linked[c] # NULL

\* C18.  create with an absent descriptor completes without fault and
\* yields a clip whose media type is "no track": every construction from
\* the null descriptor pointer, against every track, ends with the process
\* running and with PITIVI_NO_TRACK as the media type of the new clip.
CreateWithoutDescriptor ==
  [][\A c \in Tracks :
       Create(NullSf, c)
         => /\ ~fault'
            /\ nclips + 1 \in live'
            /\ media_type'[nclips + 1] = PITIVI_NO_TRACK]_vars

\* The paint routine for a track of type t.
PaintRoutine(t) ==
  CASE t = PITIVI_AUDIO_TRACK -> "show_audio_media"
    [] t = PITIVI_VIDEO_TRACK -> "show_video_media"
    [] OTHER -> "show_effects_media"

\* C19.  Paint is free of side effects and idempotent: an expose event
\* changes no selected flag, linked reference, identifier or descriptor of
\* a clip and no counter of a track (it changes nothing at all), a second
\* expose draws what the first drew, the paint routine is the one of the
\* track type of the parent track, whatever the media type of the clip,
\* and the dashed selection border is drawn if and only if the clip is
\* selected.  In every reachable state this is what the expose handler
\* does on every clip that has a window.
PaintSideEffectFree ==
  \A c \in live :
    Allocated(c)
      => LET r == pitivi_timelinemedia_expose(Heap, c)
         IN /\ StateOf(r) = Heap
            /\ pitivi_timelinemedia_expose(StateOf(r), c) = r
            /\ Len(r.log) = IF selected[c] THEN 3 ELSE 2
            /\ Calls(r.log)[1] = <<"gdk_draw_rectangle", c>>
            /\ Calls(r.log)[2] = <<PaintRoutine(track_type(parent[c])), c>>
            /\ CountSig(r.log, "draw_selection_dash") = IF selected[c] THEN 1 ELSE 0

\* A selected clip of media type video has a window in the audio track.
PaintSideEffectFreeWitness ==
  \E c \in live :
    /\ Allocated(c)
    /\ selected[c]
    /\ media_type[c] = PITIVI_VIDEO_TRACK
    /\ track_type(parent[c]) = PITIVI_AUDIO_TRACK

\* Every repaint request of the log lg was issued with every linked pair
\* of live clips having equal selected flags.
ExposesInSync(lg) ==
  \A i \in 1..Len(lg) : lg[i].sig = "expose" => lg[i].insync

\* C20.  Pair updates are atomic with respect to repaint: within one
\* invocation of a handler (press, dissociate, deselect, cut) every
\* repaint request is issued after the selected flags and the links have
\* been updated, so none is issued while two clips are linked to each other
\* and have different selected flags.  In every reachable state this is so
\* for each of these handlers, on every clip and with every input.
RepaintAfterPairUpdate ==
  \A c \in live :
    /\ \A button \in {1, 3} :
         ExposesInSync(
           pitivi_timelinemedia_button_press_event(Heap, c, button, cursor).log)
    /\ ExposesInSync(pitivi_timelinemedia_callb_dissociate(Heap, c).log)
    /\ ExposesInSync(pitivi_timelinemedia_callb_deselect(Heap, c).log)
    /\ (Allocated(c) /\ (cursor = PITIVI_CURSOR_CUT => ncuts < MaxCuts))
         => \A x \in 0..allocation[c].width : \A ub \in UBOutcomes :
              ExposesInSync(
                pitivi_timelinemedia_button_release_event(Heap, c, x, cursor, ub).log)

\* The cut of clip c at pointer offset x is complete in heap r, made from
\* the present state: the new half is created, put in the track of c at pos
\* and sized to width, and c is sized to x + 2; for a linked c the second
\* new half is created, put at pos and sized to width, the sibling is sized
\* to x + 2, and the two new halves are linked to each other.
CutComplete(r, c, x, pos, width) ==
  LET a == nclips + 1
      b == nclips + 2
      lk == linked[c]
  IN /\ a \in r.live
     /\ r.parent[a] = parent[c]
     /\ r.layout_x[a] = pos
     /\ r.size_request[a] = width
     /\ r.size_request[c] = x + 2
     /\ lk # NULL =>
          /\ b \in r.live
          /\ r.parent[b] # NoTrack
          /\ r.layout_x[b] = pos
          /\ r.size_request[b] = width
          /\ r.size_request[lk] = x + 2
          /\ r.linked[a] = b
          /\ r.linked[b] = a

\* C21.  A release with the cut cursor emits exactly one "source-cut"
\* notification, for the clip that is cut and carrying the pointer offset x
\* of the release; it is emitted with the cut complete (the new halves
\* created, put and sized, the originals resized, the new halves of a
\* linked clip linked to each other) and the handler changes nothing after
\* it.  A release with any other cursor emits none.
SourceCutNotification ==
  \A c \in live : \A x \in 0..allocation[c].width : \A ub \in UBOutcomes :
    (Allocated(c) /\ (cursor = PITIVI_CURSOR_CUT => ncuts < MaxCuts))
      => LET r == pitivi_timelinemedia_button_release_event(Heap, c, x, cursor, ub)
             n == Len(r.log)
         IN IF cursor = PITIVI_CURSOR_CUT
              THEN /\ CountSig(r.log, "source-cut") = 1
                   /\ r.log[n].sig = "source-cut"
                   /\ r.log[n].clip = c
                   /\ r.log[n].arg = x
                   /\ r.log[n].at = StateOf(r)
                   /\ CutComplete(r.log[n].at, c, x,
                        guint_of_double(allocation[c].x + x + 2, ub),
                        guint_of_double(allocation[c].width - (x + 2), ub))
              ELSE CountSig(r.log, "source-cut") = 0

\* The cut cursor is over a linked clip with a window, and a release on it
\* makes two new clips and emits the notification.
SourceCutNotificationWitness ==
  \E c \in live : \E x \in 0..allocation[c].width : \E ub \in UBOutcomes :
    /\ Allocated(c)
    /\ cursor = PITIVI_CURSOR_CUT
    /\ ncuts < MaxCuts
    /\ linked[c] # NULL
    /\ LET r == pitivi_timelinemedia_button_release_event(Heap, c, x, cursor, ub)
       IN /\ r.nclips = nclips + 2
          /\ CountSig(r.log, "source-cut") = 1

\* C22.  No dangling link: in every reachable state the linked reference
\* of a live clip is NULL or a live clip, whatever presses, cuts,
\* dissociates, deselects and deletes came before.  A delete of a selected
\* clip that is not linked destroys that clip only and changes no link of
\* another clip; in particular, with clips 1 and 2 the pair of the initial
\* state, a delete of one of them after their dissociate leaves the other
\* live with linked = NULL.
NoDanglingLink ==
  /\ [](\A m \in live : linked[m] # NULL => linked[m] \in live)
  /\ [][\A c \in Objects :
          (/\ c \in live
           /\ selected[c]
           /\ linked[c] = NULL
           /\ Destroy(c))
          => /\ live' = live \ {c}
             /\ \A m \in live' : linked'[m] = linked[m]
             /\ \A o \in {1, 2} \ {c} :
                  (c \in {1, 2} /\ o \in live)
                    => (o \in live' /\ linked'[o] = NULL)]_vars

\* One clip of the pair of the initial state is destroyed and the other is
\* live and unlinked: the pair was dissociated and one member deleted.
NoDanglingLinkWitness ==
  \E c \in {1, 2} : \E o \in {1, 2} \ {c} :
    /\ c \notin live
    /\ o \in live
    /\ linked[o] = NULL

====
